---- MODULE Spec2Model ----
(***************************************************************************)
(* Model of the peregrine aggregation tool: the file-based pipeline        *)
(* (parsePropertyFilters, filterData, aggregateData, formatAggregation,    *)
(* run) and the SQLite-backed pipeline (the import of the data file,      *)
(* queryDatabase with its audit INSERT and its close, aggregateData,       *)
(* formatAggregation and the print of the result).                         *)
(*                                                                         *)
(* JavaScript strings are sequences of one-character strings, so that      *)
(* split, JSON.parse and JSON.stringify are computed and not assumed.      *)
(* JavaScript values are records with a type tag t and one payload field   *)
(* per type; two values are === exactly when the records are equal.        *)
(***************************************************************************)
EXTENDS Integers, Sequences, FiniteSets, TLC

VARIABLES variant, data, modelFilters, propertyFilters, propertyFilterMap,
          filteredData, aggregation, result, pc,
          tables, tablesToQuery, queue, allResults, conn, promise, error,
          emitted

\* The state of the SQLite-backed command: the database, the tables
\* queryDatabase has still to query, the rows gathered, the connection, the
\* promise queryDatabase returned, the error thrown and the results printed.
dbvars == <<tables, tablesToQuery, queue, allResults, conn, promise, error,
            emitted>>

vars == <<variant, data, modelFilters, propertyFilters, propertyFilterMap,
          filteredData, aggregation, result, pc, dbvars>>

(***************************************************************************)
(* Bounds                                                                  *)
(***************************************************************************)
MaxFilters == 2
MaxChars == 5
MaxEntities == 2
MaxRows == 3
MaxModels == 2

(***************************************************************************)
(* JavaScript values                                                       *)
(***************************************************************************)
Str(s) == [t |-> "string", s |-> s, n |-> 0, b |-> FALSE]
Num(n) == [t |-> "number", s |-> <<>>, n |-> n, b |-> FALSE]
Bool(b) == [t |-> "boolean", s |-> <<>>, n |-> 0, b |-> b]
Null == [t |-> "null", s |-> <<>>, n |-> 0, b |-> FALSE]
Undefined == [t |-> "undefined", s |-> <<>>, n |-> 0, b |-> FALSE]

\* An optional command-line array: yargs leaves the option undefined when
\* it is not given.
Absent == [defined |-> FALSE, items |-> <<>>]
Given(items) == [defined |-> TRUE, items |-> items]

Range(seq) == {seq[i] : i \in 1..Len(seq)}

\* A property of an entity of the data file, and a column of a row.
Prop(slug, value) == [slug |-> slug, value |-> value]

(***************************************************************************)
(* Strings                                                                 *)
(***************************************************************************)
DigitChars == <<"0", "1", "2", "3", "4", "5", "6", "7", "8", "9">>

IsDigit(c) == \E i \in 1..10 : DigitChars[i] = c

DigitVal(c) == (CHOOSE i \in 1..10 : DigitChars[i] = c) - 1

IsWhitespace(c) == c \in {" ", "\t", "\n", "\r"}

\* Index of the first occurrence of character c in s, 0 when there is none.
IndexOf(s, c) ==
  IF \E i \in 1..Len(s) : s[i] = c
  THEN CHOOSE i \in 1..Len(s) : s[i] = c /\ \A j \in 1..(i - 1) : s[j] # c
  ELSE 0

\* String.prototype.split with a one-character separator: every separator
\* ends a piece, so "a::b" gives "a", "", "b" and "" gives one empty piece.
RECURSIVE Split(_, _)
Split(s, sep) ==
  LET i == IndexOf(s, sep)
  IN IF i = 0
     THEN <<s>>
     ELSE <<SubSeq(s, 1, i - 1)>> \o Split(SubSeq(s, i + 1, Len(s)), sep)

RECURSIVE TrimLeft(_)
TrimLeft(s) ==
  IF s # <<>> /\ IsWhitespace(Head(s)) THEN TrimLeft(Tail(s)) ELSE s

RECURSIVE TrimRight(_)
TrimRight(s) ==
  IF s # <<>> /\ IsWhitespace(s[Len(s)])
  THEN TrimRight(SubSeq(s, 1, Len(s) - 1))
  ELSE s

(***************************************************************************)
(* JSON.parse and JSON.stringify on scalars.  The grammar covered is        *)
(* whitespace, the literals true, false and null, integers with an          *)
(* optional minus sign and no leading zero, and double-quoted strings        *)
(* without escapes.  The characters that open the rest of the JSON grammar   *)
(* (a fraction point, an exponent after a digit, brackets, braces, a        *)
(* backslash) occur in no string of the model.                              *)
(***************************************************************************)
IsUnsignedInt(s) ==
  /\ s # <<>>
  /\ \A i \in 1..Len(s) : IsDigit(s[i])
  /\ (Len(s) > 1 => s[1] # "0")

RECURSIVE UnsignedVal(_)
UnsignedVal(s) ==
  IF s = <<>> THEN 0
  ELSE 10 * UnsignedVal(SubSeq(s, 1, Len(s) - 1)) + DigitVal(s[Len(s)])

IsJSONInt(s) ==
  \/ IsUnsignedInt(s)
  \/ s # <<>> /\ s[1] = "-" /\ IsUnsignedInt(Tail(s))

JSONIntVal(s) ==
  IF s[1] = "-" THEN 0 - UnsignedVal(Tail(s)) ELSE UnsignedVal(s)

IsJSONString(s) ==
  /\ Len(s) >= 2
  /\ s[1] = "\""
  /\ s[Len(s)] = "\""
  /\ \A i \in 2..(Len(s) - 1) : s[i] # "\""

\* JSON.parse: ok is FALSE where JSON.parse throws a SyntaxError.
JSONparse(text) ==
  LET s == TrimRight(TrimLeft(text))
  IN IF s = <<"t", "r", "u", "e">> THEN [ok |-> TRUE, v |-> Bool(TRUE)]
     ELSE IF s = <<"f", "a", "l", "s", "e">> THEN [ok |-> TRUE, v |-> Bool(FALSE)]
     ELSE IF s = <<"n", "u", "l", "l">> THEN [ok |-> TRUE, v |-> Null]
     ELSE IF IsJSONInt(s) THEN [ok |-> TRUE, v |-> Num(JSONIntVal(s))]
     ELSE IF IsJSONString(s) THEN [ok |-> TRUE, v |-> Str(SubSeq(s, 2, Len(s) - 1))]
     ELSE [ok |-> FALSE, v |-> Undefined]

RECURSIVE Digits(_)
Digits(n) ==
  IF n < 10 THEN <<DigitChars[n + 1]>>
  ELSE Digits(n \div 10) \o <<DigitChars[(n % 10) + 1]>>

\* JSON.stringify of a scalar, as the text it yields when used as a
\* property key (undefined yields the key "undefined").
JSONstringify(v) ==
  CASE v.t = "number" -> IF v.n < 0 THEN <<"-">> \o Digits(0 - v.n) ELSE Digits(v.n)
    [] v.t = "boolean" -> IF v.b THEN <<"t", "r", "u", "e">>
                          ELSE <<"f", "a", "l", "s", "e">>
    [] v.t = "null" -> <<"n", "u", "l", "l">>
    [] v.t = "string" -> <<"\"">> \o v.s \o <<"\"">>
    [] OTHER -> <<"u", "n", "d", "e", "f", "i", "n", "e", "d">>

\* parseValue: JSON.parse, and the text itself when JSON.parse throws.
parseValue(value) ==
  LET r == JSONparse(value)
  IN IF r.ok THEN r.v ELSE Str(value)

\* The bucket key of aggregateData: a string is its own key, any other
\* value is keyed by its JSON text.
valueKeyOf(value) ==
  IF value.t = "string" THEN value.s ELSE JSONstringify(value)

(***************************************************************************)
(* parsePropertyFilters                                                    *)
(***************************************************************************)
EmptyMap == [k \in {} |-> <<>>]

MapValues(values) == [i \in 1..Len(values) |-> parseValue(values[i])]

\* One pass of the forEach callback over a raw filter entry.  The
\* destructuring [key, values] = filter.split(":") takes the first two
\* pieces; values is undefined when there is no second piece.
FilterEntryStep(map, filter) ==
  LET parts == Split(filter, ":")
      key == parts[1]
      hasValues == Len(parts) >= 2 /\ parts[2] # <<>>
  IN IF key = <<>> \/ ~hasValues
     THEN map
     ELSE [k \in (DOMAIN map) \cup {key} |->
             IF k = key THEN MapValues(Split(parts[2], ",")) ELSE map[k]]

RECURSIVE FoldFilters(_, _)
FoldFilters(map, filters) ==
  IF filters = <<>> THEN map
  ELSE FoldFilters(FilterEntryStep(map, Head(filters)), Tail(filters))

parsePropertyFilters(pf) ==
  IF pf.defined THEN FoldFilters(EmptyMap, pf.items) ELSE EmptyMap

(***************************************************************************)
(* JavaScript objects used as dictionaries: a sequence of [key, val]       *)
(* records in insertion order.  Object.keys / Object.entries list the keys *)
(* that are array indices first, in ascending numeric order, then the      *)
(* other keys in insertion order.                                          *)
(***************************************************************************)
EmptyObj == <<>>

ObjIndex(obj, key) ==
  IF \E i \in 1..Len(obj) : obj[i].key = key
  THEN CHOOSE i \in 1..Len(obj) : obj[i].key = key
  ELSE 0

ObjHas(obj, key) == ObjIndex(obj, key) # 0

ObjGet(obj, key) == obj[ObjIndex(obj, key)].val

ObjSet(obj, key, val) ==
  IF ObjHas(obj, key)
  THEN [obj EXCEPT ![ObjIndex(obj, key)] = [key |-> key, val |-> val]]
  ELSE Append(obj, [key |-> key, val |-> val])

\* An array index is a canonical numeric string below 2^32 - 1; every key
\* of the model has fewer than ten digits, where that is every such string.
IsArrayIndex(key) == IsUnsignedInt(key) /\ Len(key) < 10

RECURSIVE AscendingIndexKeys(_)
AscendingIndexKeys(keys) ==
  IF keys = {} THEN <<>>
  ELSE LET least == CHOOSE k \in keys :
                      \A other \in keys : UnsignedVal(k) <= UnsignedVal(other)
       IN <<least>> \o AscendingIndexKeys(keys \ {least})

OwnKeys(obj) ==
  LET inserted == [i \in 1..Len(obj) |-> obj[i].key]
      indexKeys == {obj[i].key : i \in {j \in 1..Len(obj) : IsArrayIndex(obj[j].key)}}
  IN AscendingIndexKeys(indexKeys)
       \o SelectSeq(inserted, LAMBDA k : ~IsArrayIndex(k))

ObjEntries(obj) ==
  LET keys == OwnKeys(obj)
  IN [i \in 1..Len(keys) |-> <<keys[i], ObjGet(obj, keys[i])>>]

(***************************************************************************)
(* filterData (file-based pipeline)                                        *)
(***************************************************************************)
\* Array.prototype.find on entity.properties: index of the first property
\* with the slug, 0 when find returns undefined.
FindProp(properties, slug) ==
  IF \E i \in 1..Len(properties) : properties[i].slug = slug
  THEN CHOOSE i \in 1..Len(properties) :
         /\ properties[i].slug = slug
         /\ \A j \in 1..(i - 1) : properties[j].slug # slug
  ELSE 0

\* Array.prototype.includes: SameValueZero, which is === on the values of
\* the model (no NaN).
Includes(list, v) == \E i \in 1..Len(list) : list[i] = v

\* The allow-list read as an intersection: every listed model must be the
\* entity's model.
modelMatchEveryListed(entity, models) ==
  \/ ~models.defined
  \/ \A i \in 1..Len(models.items) : models.items[i] = entity.model

modelMatch(entity, models) ==
  \/ ~models.defined
  \/ Len(models.items) = 0
  \/ Includes(models.items, entity.model)

\* The membership test on the printed form of the values, which is loose
\* equality between a number and the string of its digits.
propertyMatchLoose(entity, map) ==
  \A key \in DOMAIN map :
    LET i == FindProp(entity.properties, key)
    IN IF i = 0 THEN FALSE
       ELSE IF entity.properties[i].value = Null THEN FALSE
       ELSE \E n \in 1..Len(map[key]) :
              valueKeyOf(map[key][n]) = valueKeyOf(entity.properties[i].value)

propertyMatch(entity, map) ==
  \A key \in DOMAIN map :
    LET i == FindProp(entity.properties, key)
    IN IF i = 0 THEN FALSE
       ELSE IF entity.properties[i].value = Null THEN FALSE
       ELSE Includes(map[key], entity.properties[i].value)

filterData(entities, models, map) ==
  SelectSeq(entities, LAMBDA e : modelMatch(e, models) /\ propertyMatch(e, map))

(***************************************************************************)
(* aggregateData                                                           *)
(***************************************************************************)
\* The slug's buckets created anew on every occurrence.
IncrementResetting(agg, slug, value) ==
  LET created == ObjSet(agg, slug, EmptyObj)
      counts == ObjGet(created, slug)
      valueKey == valueKeyOf(value)
      old == IF ObjHas(counts, valueKey) THEN ObjGet(counts, valueKey) ELSE 0
  IN ObjSet(created, slug, ObjSet(counts, valueKey, old + 1))

Increment(agg, slug, value) ==
  LET created == IF ObjHas(agg, slug) THEN agg ELSE ObjSet(agg, slug, EmptyObj)
      counts == ObjGet(created, slug)
      valueKey == valueKeyOf(value)
      old == IF ObjHas(counts, valueKey) THEN ObjGet(counts, valueKey) ELSE 0
  IN ObjSet(created, slug, ObjSet(counts, valueKey, old + 1))

\* File-based pipeline: one property of one entity.
AggregatePropFile(agg, prop) ==
  IF prop.value = Null THEN agg
  ELSE Increment(agg, prop.slug, prop.value)

booleanColumns == {<<"s", "t", "o", "l", "e", "n">>,
                   <<"i", "m", "p", "o", "u", "n", "d", "e", "d">>}

\* The column's buckets created ahead of the null test.
AggregatePropSqliteCreatingFirst(agg, prop) ==
  LET created == IF ObjHas(agg, prop.slug) THEN agg
                 ELSE ObjSet(agg, prop.slug, EmptyObj)
  IN IF prop.value = Null \/ prop.value = Undefined THEN created
     ELSE LET value == IF prop.slug \in booleanColumns
                       THEN IF prop.value = Num(1) THEN Bool(TRUE)
                            ELSE IF prop.value = Num(0) THEN Bool(FALSE)
                            ELSE prop.value
                       ELSE prop.value
          IN Increment(created, prop.slug, value)

\* SQLite-backed pipeline: one column of one row.
AggregatePropSqlite(agg, prop) ==
  IF prop.value = Null \/ prop.value = Undefined THEN agg
  ELSE LET value == IF prop.slug \in booleanColumns
                    THEN IF prop.value = Num(1) THEN Bool(TRUE)
                         ELSE IF prop.value = Num(0) THEN Bool(FALSE)
                         ELSE prop.value
                    ELSE prop.value
       IN Increment(agg, prop.slug, value)

RECURSIVE FoldProps(_, _, _)
FoldProps(agg, properties, sqlite) ==
  IF properties = <<>> THEN agg
  ELSE FoldProps(IF sqlite THEN AggregatePropSqlite(agg, Head(properties))
                 ELSE AggregatePropFile(agg, Head(properties)),
                 Tail(properties), sqlite)

RECURSIVE FoldEntities(_, _, _)
FoldEntities(agg, entities, sqlite) ==
  IF entities = <<>> THEN agg
  ELSE FoldEntities(FoldProps(agg, Head(entities).properties, sqlite),
                    Tail(entities), sqlite)

aggregateDataFile(entities) == FoldEntities(EmptyObj, entities, FALSE)

aggregateDataSqlite(rows) == FoldEntities(EmptyObj, rows, TRUE)

(***************************************************************************)
(* formatAggregation                                                       *)
(***************************************************************************)
\* The comparator turned round: a[1] - b[1].
RECURSIVE InsertByCountAscending(_, _)
InsertByCountAscending(sorted, pair) ==
  IF sorted = <<>> THEN <<pair>>
  ELSE IF Head(sorted)[2] <= pair[2]
       THEN <<Head(sorted)>> \o InsertByCountAscending(Tail(sorted), pair)
       ELSE <<pair>> \o sorted

\* Array.prototype.sort with (a, b) => b[1] - a[1]: a stable sort, so a
\* pair goes after every pair whose count is not smaller.
RECURSIVE InsertByCount(_, _)
InsertByCount(sorted, pair) ==
  IF sorted = <<>> THEN <<pair>>
  ELSE IF Head(sorted)[2] >= pair[2]
       THEN <<Head(sorted)>> \o InsertByCount(Tail(sorted), pair)
       ELSE <<pair>> \o sorted

RECURSIVE SortByCountDesc(_)
SortByCountDesc(pairs) ==
  IF pairs = <<>> THEN <<>>
  ELSE InsertByCount(SortByCountDesc(SubSeq(pairs, 1, Len(pairs) - 1)),
                     pairs[Len(pairs)])

displayValue(valueKey, sqlite) ==
  IF sqlite THEN Str(valueKey) ELSE parseValue(valueKey)

FormatCounts(counts, sqlite) ==
  LET entries == ObjEntries(counts)
  IN SortByCountDesc([i \in 1..Len(entries) |->
                        <<displayValue(entries[i][1], sqlite), entries[i][2]>>])

RECURSIVE FoldFormat(_, _, _, _)
FoldFormat(out, keys, agg, sqlite) ==
  IF keys = <<>> THEN out
  ELSE FoldFormat(ObjSet(out, Head(keys), FormatCounts(ObjGet(agg, Head(keys)), sqlite)),
                  Tail(keys), agg, sqlite)

formatAggregationFile(agg) == FoldFormat(EmptyObj, OwnKeys(agg), agg, FALSE)

formatAggregationSqlite(agg) == FoldFormat(EmptyObj, OwnKeys(agg), agg, TRUE)

\* run of the file-based pipeline.
run(entities, models, filters) ==
  formatAggregationFile(
    aggregateDataFile(filterData(entities, models, parsePropertyFilters(filters))))

(***************************************************************************)
(* The SQLite database.  A table is a record of its name, its columns in   *)
(* creation order and its rows; a row lists every column of its table with *)
(* the stored value, as db.all returns it for SELECT *.                    *)
(***************************************************************************)
WordChars ==
  {"a", "b", "c", "d", "e", "f", "g", "h", "i", "j", "k", "l", "m", "n", "o",
   "p", "q", "r", "s", "t", "u", "v", "w", "x", "y", "z", "_"}
    \cup Range(DigitChars)

\* basicSanitization on a slug: every character outside [a-zA-Z0-9_] is
\* dropped (the slugs of the model are in lower case).
basicSanitization(str) == SelectSeq(str, LAMBDA c : c \in WordChars)

\* The column type importData declares for a property type.
columnTypeOf(type) ==
  CASE type = "STRING" -> "TEXT"
    [] type = "INTEGER" -> "INTEGER"
    [] type = "BOOLEAN" -> "INTEGER"
    [] OTHER -> "TEXT"

\* The value SQLite holds for a bound JavaScript value: a boolean is bound
\* as the integer 1 or 0.
bindValue(v) ==
  IF v.t = "boolean" THEN (IF v.b THEN Num(1) ELSE Num(0)) ELSE v

TableIndex(tbls, name) ==
  IF \E i \in 1..Len(tbls) : tbls[i].name = name
  THEN CHOOSE i \in 1..Len(tbls) : tbls[i].name = name
  ELSE 0

ColumnNames(table) == {table.columns[i].name : i \in 1..Len(table.columns)}

\* The row an INSERT of the entity's properties makes in the table: the
\* columns not named hold NULL.
InsertedRow(table, entity) ==
  [model |-> table.name,
   properties |->
     [i \in 1..Len(table.columns) |->
        LET at == {j \in 1..Len(entity.properties) :
                     basicSanitization(entity.properties[j].slug) = table.columns[i].name}
        IN Prop(table.columns[i].name,
                IF at = {} THEN Null
                ELSE bindValue(entity.properties[CHOOSE j \in at : TRUE].value))]]

\* One turn of the loop of importData; failed is set where runQuery
\* rejects (a column the table does not have) and the loop is left.  The
\* model names and the property types of the model are what sanitizing
\* and toUpperCase leave them.
ImportEntity(st, entity) ==
  IF st.failed THEN st
  ELSE LET created ==
             IF TableIndex(st.tables, entity.model) # 0 THEN st.tables
             ELSE Append(st.tables,
                         [name |-> entity.model,
                          columns |->
                            [i \in 1..Len(entity.properties) |->
                               [name |-> basicSanitization(entity.properties[i].slug),
                                type |-> columnTypeOf(entity.properties[i].type)]],
                          rows |-> <<>>])
           at == TableIndex(created, entity.model)
           known == \A i \in 1..Len(entity.properties) :
                      basicSanitization(entity.properties[i].slug)
                        \in ColumnNames(created[at])
       IN IF ~known THEN [tables |-> created, failed |-> TRUE]
          ELSE [tables |-> [created EXCEPT ![at].rows =
                              Append(@, InsertedRow(created[at], entity))],
                failed |-> FALSE]

RECURSIVE importData(_, _)
importData(st, entities) ==
  IF entities = <<>> THEN st
  ELSE importData(ImportEntity(st, Head(entities)), Tail(entities))

\* The text CURRENT_TIMESTAMP leaves in a row.
Timestamp == Str(<<"2", "0", "2", "6">>)

ImportTable ==
  [name |-> "import",
   columns |-> <<[name |-> <<"i", "d">>, type |-> "INTEGER"],
                 [name |-> <<"i", "m", "p", "o", "r", "t", "e", "d", "_", "a", "t">>,
                  type |-> "DATETIME"]>>,
   rows |-> <<[model |-> "import",
               properties |->
                 <<Prop(<<"i", "d">>, Num(1)),
                   Prop(<<"i", "m", "p", "o", "r", "t", "e", "d", "_", "a", "t">>,
                        Timestamp)>>]>>]

LogColumns ==
  <<[name |-> <<"i", "d">>, type |-> "INTEGER"],
    [name |-> <<"c", "o", "m", "m", "a", "n", "d">>, type |-> "TEXT"],
    [name |-> <<"a", "c", "c", "e", "s", "s", "e", "d", "_", "a", "t">>,
     type |-> "DATETIME"],
    [name |-> <<"u", "s", "e", "r", "n", "a", "m", "e">>, type |-> "TEXT"]>>

LogTable == [name |-> "log", columns |-> LogColumns, rows |-> <<>>]

\* setupDatabase on a missing database file: the import, then the import
\* and log tables; an import that fails leaves what it made so far.
setupDatabase(entities) ==
  LET imported == importData([tables |-> <<>>, failed |-> FALSE], entities)
  IN IF imported.failed THEN imported.tables
     ELSE imported.tables \o <<ImportTable, LogTable>>

\* getAllTableNames: the names in sqlite_master.
TableNames(tbls) == [i \in 1..Len(tbls) |-> tbls[i].name]

RowValue(row, column) ==
  row.properties[CHOOSE i \in 1..Len(row.properties) :
                   row.properties[i].slug = column].value

\* "key" IN (?, ...) on a row.  A key that names a column compares the
\* stored value, NULL matching nothing; a key that names no column is read
\* by SQLite as the string literal of its text.  The filters of the model
\* compare integers with integer columns, where SQLite's comparison is
\* equality of the values.
InCondition(table, row, key, values) ==
  LET left == IF key \in ColumnNames(table) THEN RowValue(row, key) ELSE Str(key)
  IN /\ left # Null
     /\ \E i \in 1..Len(values) :
          bindValue(values[i]) # Null /\ bindValue(values[i]) = left

\* The rows of SELECT * FROM "model" WHERE ... AND ...: a key with an empty
\* value list adds no condition.
SelectRows(table, map) ==
  SelectSeq(table.rows,
            LAMBDA row : \A key \in DOMAIN map :
                           Len(map[key]) > 0 => InCondition(table, row, key, map[key]))

\* The row the audit INSERT adds: captureCommand() and getUsername() stand
\* as fixed texts.
LogRow(table) ==
  [model |-> "log",
   properties |->
     <<Prop(LogColumns[1].name, Num(Len(table.rows) + 1)),
       Prop(LogColumns[2].name, Str(<<"c", "m", "d">>)),
       Prop(LogColumns[3].name, Timestamp),
       Prop(LogColumns[4].name, Str(<<"u", "s", "e", "r">>))>>]

(***************************************************************************)
(* Inputs                                                                  *)
(***************************************************************************)
SeqsUpTo(S, n) == UNION {[1..k -> S] : k \in 0..n}

Models == {"person", "vehicle"}

SlugA == <<"a">>
SlugB == <<"b">>
SlugStolen == <<"s", "t", "o", "l", "e", "n">>

\* Property lists of the entities of the data file.  A slug occurs at most
\* once in an entity and every property carries a string, a number, a
\* boolean or null.
PipelineProps ==
  LET as == {<<>>} \cup {<<Prop(SlugA, v)>> :
                           v \in {Num(1), Str(<<"1">>), Str(<<"a">>), Null}}
      bs == {<<>>, <<Prop(SlugB, Str(<<"a">>))>>}
  IN {x \o y : x \in as, y \in bs}

PipelineEntities == [model : Models, properties : PipelineProps]

ModelFilterInputs ==
  {Absent} \cup {Given(m) : m \in SeqsUpTo(Models, 1)}

\* Raw --properties entries: a:1   a:"1"   a:null,a   b:a   b:1
RawA1 == <<"a", ":", "1">>
RawAQuoted1 == <<"a", ":", "\"", "1", "\"">>
RawANullA == <<"a", ":", "n", "u", "l", "l", ",", "a">>
RawBA == <<"b", ":", "a">>
RawB1 == <<"b", ":", "1">>

PropertyFilterInputs ==
  {Absent, Given(<<>>), Given(<<RawA1>>), Given(<<RawAQuoted1>>), Given(<<RawANullA>>),
   Given(<<RawA1, RawBA>>), Given(<<RawB1>>)}

\* Inputs of aggregateData alone.  Rows of the SQLite-backed pipeline are
\* flat records, modelled as the list of their columns in Object.keys
\* order; SQLite returns numbers, strings and null, and the column stolen
\* holds 0 or 1.  The data file also carries booleans.
AggregateValues(sqlite) ==
  {Num(1), Str(<<"1">>), Str(<<" ", "1">>), Null}
    \cup (IF sqlite THEN {} ELSE {Bool(TRUE)})

AggregateProps(sqlite) ==
  {<<Prop(SlugA, v)>> \o y :
     v \in AggregateValues(sqlite),
     y \in {<<>>, <<Prop(SlugStolen, Num(1))>>, <<Prop(SlugStolen, Num(0))>>}}

AggregateEntities(sqlite) == [model : {"vehicle"}, properties : AggregateProps(sqlite)]

\* Raw filter lists over an alphabet, at most MaxFilters entries and
\* MaxChars characters in all.
Alphabet == {"a", "1", ":", ","}

RECURSIVE RawLists(_, _)
RawLists(count, chars) ==
  IF count = 0 THEN {<<>>}
  ELSE UNION {{<<entry>> \o rest : rest \in RawLists(count - 1, chars - Len(entry))} :
                entry \in SeqsUpTo(Alphabet, chars)}

RawFilterLists(entries, chars) == UNION {RawLists(k, chars) : k \in 0..entries}

\* Entities of the data file the import reads: every property carries the
\* type the import picks the column type from.  A vehicle has the boolean
\* properties stolen and b, a person the integer property a.
TypedProp(slug, type, value) == [slug |-> slug, type |-> type, value |-> value]

DatabaseEntities ==
  {[model |-> "vehicle",
    properties |-> <<TypedProp(SlugStolen, "BOOLEAN", Bool(x)),
                     TypedProp(SlugB, "BOOLEAN", Bool(y))>>] : x, y \in BOOLEAN}
    \cup {[model |-> "person",
           properties |-> <<TypedProp(SlugA, "INTEGER", v)>>] : v \in {Num(1), Null}}

\* -m of the SQLite-backed command: absent, empty, or a list of models.
DatabaseModelFilterInputs(n) ==
  {Absent} \cup {Given(m) : m \in SeqsUpTo(Models, n)}

\* Raw --properties entry stolen:1
RawStolen1 == SlugStolen \o <<":", "1">>

DatabasePropertyFilterInputs == {Absent, Given(<<RawStolen1>>), Given(<<RawA1>>)}

(***************************************************************************)
(* State machine                                                           *)
(***************************************************************************)
NoConnection ==
  [open |-> FALSE, closeRequested |-> 0, closeCalledBack |-> 0,
   logIssued |-> 0, logResult |-> "none"]

\* No database is in play.
NoDatabase ==
  /\ tables = <<>>
  /\ tablesToQuery = <<>>
  /\ queue = <<>>
  /\ allResults = <<>>
  /\ conn = NoConnection
  /\ promise = "pending"
  /\ error = "none"
  /\ emitted = <<>>

Idle ==
  /\ propertyFilterMap = EmptyMap
  /\ aggregation = EmptyObj
  /\ result = EmptyObj
  /\ NoDatabase

\* The file-based command: node index.js -m ... -p ... over a data file.
Init ==
  /\ variant = "file"
  /\ data \in SeqsUpTo(PipelineEntities, MaxEntities)
  /\ modelFilters \in ModelFilterInputs
  /\ propertyFilters \in PropertyFilterInputs
  /\ filteredData = <<>>
  /\ Idle
  /\ pc = "parse"

\* The SQLite-backed command once ensureDatabase has returned: the
\* database file was made by setupDatabase from the data file, or it was
\* there and holds no table.
InitDatabase ==
  /\ variant = "sqlite"
  /\ data \in SeqsUpTo(DatabaseEntities, MaxEntities)
  /\ modelFilters \in DatabaseModelFilterInputs(MaxModels)
  /\ propertyFilters \in DatabasePropertyFilterInputs
  /\ filteredData = <<>>
  /\ propertyFilterMap = EmptyMap
  /\ aggregation = EmptyObj
  /\ result = EmptyObj
  /\ tables \in {setupDatabase(data), <<>>}
  /\ tablesToQuery = <<>>
  /\ queue = <<>>
  /\ allResults = <<>>
  /\ conn = NoConnection
  /\ promise = "pending"
  /\ error = "none"
  /\ emitted = <<>>
  /\ pc = "parse"

\* aggregateData and formatAggregation of either pipeline on a given list.
InitAggregate ==
  /\ variant \in {"file", "sqlite"}
  /\ data = <<>>
  /\ modelFilters = Absent
  /\ propertyFilters = Absent
  /\ filteredData \in SeqsUpTo(AggregateEntities(variant = "sqlite"), MaxRows)
  /\ Idle
  /\ pc = "aggregate"

\* parsePropertyFilters on a given list of raw entries.
InitParse ==
  /\ variant = "file"
  /\ data = <<>>
  /\ modelFilters = Absent
  /\ propertyFilters \in {Absent} \cup {Given(l) : l \in RawFilterLists(MaxFilters, MaxChars)}
  /\ filteredData = <<>>
  /\ Idle
  /\ pc = "parse"

ParsePropertyFilters ==
  /\ pc = "parse"
  /\ propertyFilterMap' = parsePropertyFilters(propertyFilters)
  /\ pc' = "filter"
  /\ UNCHANGED dbvars
  /\ UNCHANGED <<variant, data, modelFilters, propertyFilters, filteredData,
                 aggregation, result>>

FilterData ==
  /\ pc = "filter"
  /\ variant = "file"
  /\ filteredData' = filterData(data, modelFilters, propertyFilterMap)
  /\ pc' = "aggregate"
  /\ UNCHANGED dbvars
  /\ UNCHANGED <<variant, data, modelFilters, propertyFilters, propertyFilterMap,
                 aggregation, result>>

AggregateDataFile ==
  /\ pc = "aggregate"
  /\ variant = "file"
  /\ aggregation' = aggregateDataFile(filteredData)
  /\ pc' = "format"
  /\ UNCHANGED dbvars
  /\ UNCHANGED <<variant, data, modelFilters, propertyFilters, propertyFilterMap,
                 filteredData, result>>

AggregateDataSqlite ==
  /\ pc = "aggregate"
  /\ variant = "sqlite"
  /\ aggregation' = aggregateDataSqlite(filteredData)
  /\ pc' = "format"
  /\ UNCHANGED dbvars
  /\ UNCHANGED <<variant, data, modelFilters, propertyFilters, propertyFilterMap,
                 filteredData, result>>

FormatAggregationFile ==
  /\ pc = "format"
  /\ variant = "file"
  /\ result' = formatAggregationFile(aggregation)
  /\ pc' = "done"
  /\ UNCHANGED dbvars
  /\ UNCHANGED <<variant, data, modelFilters, propertyFilters, propertyFilterMap,
                 filteredData, aggregation>>

FormatAggregationSqlite ==
  /\ pc = "format"
  /\ variant = "sqlite"
  /\ result' = formatAggregationSqlite(aggregation)
  /\ pc' = "done"
  /\ UNCHANGED dbvars
  /\ UNCHANGED <<variant, data, modelFilters, propertyFilters, propertyFilterMap,
                 filteredData, aggregation>>

\* The message of SQLite for a SELECT from a table that is not there.
MissingTableError == "SQLITE_ERROR: no such table"

\* queryDatabase up to its first await that reaches the database: the
\* connection is made and tablesToQuery is the allow-list unless that is
\* absent or empty.
OpenDatabase ==
  /\ pc = "filter"
  /\ variant = "sqlite"
  /\ conn' = [conn EXCEPT !.open = TRUE]
  /\ IF ~modelFilters.defined \/ Len(modelFilters.items) = 0
     THEN /\ pc' = "list"
          /\ UNCHANGED <<tablesToQuery, queue>>
     ELSE /\ tablesToQuery' = modelFilters.items
          /\ queue' = modelFilters.items
          /\ pc' = "query"
  /\ UNCHANGED <<tables, allResults, promise, error, emitted>>
  /\ UNCHANGED <<variant, data, modelFilters, propertyFilters, propertyFilterMap,
                 filteredData, aggregation, result>>

\* The callback of getAllTableNames and the test of the list's length.
GetAllTableNames ==
  /\ pc = "list"
  /\ \E err \in BOOLEAN :
       IF err
       THEN /\ error' = "SQLITE_ERROR"
            /\ pc' = "catch"
            /\ UNCHANGED <<tablesToQuery, queue>>
       ELSE IF Len(TableNames(tables)) = 0
       THEN /\ error' = "No tables found in the database."
            /\ pc' = "catch"
            /\ UNCHANGED <<tablesToQuery, queue>>
       ELSE /\ tablesToQuery' = TableNames(tables)
            /\ queue' = TableNames(tables)
            /\ pc' = "query"
            /\ UNCHANGED error
  /\ UNCHANGED <<tables, allResults, conn, promise, emitted>>
  /\ UNCHANGED <<variant, data, modelFilters, propertyFilters, propertyFilterMap,
                 filteredData, aggregation, result>>

\* The callback of db.all for the next query of the loop: SQLite rejects a
\* SELECT from a table that does not exist, and any query can fail.
QueryTable ==
  /\ pc = "query"
  /\ queue # <<>>
  /\ LET at == TableIndex(tables, Head(queue))
     IN IF at = 0
        THEN /\ error' = MissingTableError
             /\ pc' = "catch"
             /\ UNCHANGED <<queue, allResults>>
        ELSE \E err \in BOOLEAN :
               IF err
               THEN /\ error' = "SQLITE_ERROR"
                    /\ pc' = "catch"
                    /\ UNCHANGED <<queue, allResults>>
               ELSE /\ allResults' = allResults \o SelectRows(tables[at], propertyFilterMap)
                    /\ queue' = Tail(queue)
                    /\ UNCHANGED <<error, pc>>
  /\ UNCHANGED <<tables, tablesToQuery, conn, promise, emitted>>
  /\ UNCHANGED <<variant, data, modelFilters, propertyFilters, propertyFilterMap,
                 filteredData, aggregation, result>>

\* After the loop: logCommand issues the INSERT and db.close is called.
LogCommandAndClose ==
  /\ pc = "query"
  /\ queue = <<>>
  /\ conn' = [conn EXCEPT !.logIssued = @ + 1, !.logResult = "pending",
                          !.closeRequested = @ + 1]
  /\ pc' = "closing"
  /\ UNCHANGED <<tables, tablesToQuery, queue, allResults, promise, error, emitted>>
  /\ UNCHANGED <<variant, data, modelFilters, propertyFilters, propertyFilterMap,
                 filteredData, aggregation, result>>

\* A failed INSERT thrown into the catch block.
LogCallbackAborting ==
  /\ conn.logResult = "pending"
  /\ \E err \in BOOLEAN :
       /\ TableIndex(tables, "log") = 0 => err
       /\ IF err
          THEN /\ conn' = [conn EXCEPT !.logResult = "failed"]
               /\ error' = "SQLITE_ERROR"
               /\ pc' = "catch"
               /\ UNCHANGED tables
          ELSE /\ conn' = [conn EXCEPT !.logResult = "logged"]
               /\ tables' = [tables EXCEPT ![TableIndex(tables, "log")].rows =
                                Append(@, LogRow(tables[TableIndex(tables, "log")]))]
               /\ UNCHANGED <<error, pc>>
  /\ UNCHANGED <<tablesToQuery, queue, allResults, promise, emitted>>
  /\ UNCHANGED <<variant, data, modelFilters, propertyFilters, propertyFilterMap,
                 filteredData, aggregation, result>>

\* The callback of the INSERT of logCommand: it prints and does no more.
\* The INSERT fails where there is no log table and can fail otherwise.
\* The source does not order it with the callback of db.close.
LogCallback ==
  /\ conn.logResult = "pending"
  /\ \E err \in BOOLEAN :
       /\ TableIndex(tables, "log") = 0 => err
       /\ IF err
          THEN /\ conn' = [conn EXCEPT !.logResult = "failed"]
               /\ UNCHANGED tables
          ELSE /\ conn' = [conn EXCEPT !.logResult = "logged"]
               /\ tables' = [tables EXCEPT ![TableIndex(tables, "log")].rows =
                                Append(@, LogRow(tables[TableIndex(tables, "log")]))]
  /\ UNCHANGED <<tablesToQuery, queue, allResults, promise, error, emitted, pc>>
  /\ UNCHANGED <<variant, data, modelFilters, propertyFilters, propertyFilterMap,
                 filteredData, aggregation, result>>

\* The message of SQLite for a close that cannot be done.
CloseError == "SQLITE_BUSY"

\* The callback of db.close in the try block: an error is thrown into the
\* catch block, else queryDatabase returns allResults to run.
CloseCallback ==
  /\ pc = "closing"
  /\ \E err \in BOOLEAN :
       IF err
       THEN /\ conn' = [conn EXCEPT !.closeCalledBack = @ + 1]
            /\ error' = CloseError
            /\ pc' = "catch"
            /\ UNCHANGED <<promise, filteredData>>
       ELSE /\ conn' = [conn EXCEPT !.closeCalledBack = @ + 1, !.open = FALSE]
            /\ promise' = "resolved"
            /\ filteredData' = allResults
            /\ pc' = "aggregate"
            /\ UNCHANGED error
  /\ UNCHANGED <<tables, tablesToQuery, queue, allResults, emitted>>
  /\ UNCHANGED <<variant, data, modelFilters, propertyFilters, propertyFilterMap,
                 aggregation, result>>

\* The error thrown on without a close.
CatchCloseSkipped ==
  /\ pc = "catch"
  /\ promise' = "rejected"
  /\ pc' = "failed"
  /\ UNCHANGED <<tables, tablesToQuery, queue, allResults, conn, error, emitted>>
  /\ UNCHANGED <<variant, data, modelFilters, propertyFilters, propertyFilterMap,
                 filteredData, aggregation, result>>

\* The catch block calls db.close.
CatchClose ==
  /\ pc = "catch"
  /\ conn' = [conn EXCEPT !.closeRequested = @ + 1]
  /\ pc' = "catchClosing"
  /\ UNCHANGED <<tables, tablesToQuery, queue, allResults, promise, error, emitted>>
  /\ UNCHANGED <<variant, data, modelFilters, propertyFilters, propertyFilterMap,
                 filteredData, aggregation, result>>

\* The rows read so far returned in place of the error.
CatchCloseCallbackReturningRows ==
  /\ pc = "catchClosing"
  /\ \E err \in BOOLEAN :
       conn' = [conn EXCEPT !.closeCalledBack = @ + 1, !.open = err]
  /\ promise' = "resolved"
  /\ filteredData' = allResults
  /\ pc' = "aggregate"
  /\ UNCHANGED <<tables, tablesToQuery, queue, allResults, error, emitted>>
  /\ UNCHANGED <<variant, data, modelFilters, propertyFilters, propertyFilterMap,
                 aggregation, result>>

\* The callback of db.close in the catch block drops its error and the
\* caught error is thrown again.
CatchCloseCallback ==
  /\ pc = "catchClosing"
  /\ \E err \in BOOLEAN :
       conn' = [conn EXCEPT !.closeCalledBack = @ + 1, !.open = err]
  /\ promise' = "rejected"
  /\ pc' = "failed"
  /\ UNCHANGED <<tables, tablesToQuery, queue, allResults, error, emitted>>
  /\ UNCHANGED <<variant, data, modelFilters, propertyFilters, propertyFilterMap,
                 filteredData, aggregation, result>>

\* .catch of the command: the message goes to the error stream.
ReportError ==
  /\ pc = "failed"
  /\ pc' = "reported"
  /\ UNCHANGED dbvars
  /\ UNCHANGED <<variant, data, modelFilters, propertyFilters, propertyFilterMap,
                 filteredData, aggregation, result>>

\* .then of the command: the result is printed.
EmitResult ==
  /\ pc = "done"
  /\ variant = "sqlite"
  /\ emitted' = Append(emitted, result)
  /\ pc' = "exit"
  /\ UNCHANGED <<tables, tablesToQuery, queue, allResults, conn, promise, error>>
  /\ UNCHANGED <<variant, data, modelFilters, propertyFilters, propertyFilterMap,
                 filteredData, aggregation, result>>

Next ==
  \/ ParsePropertyFilters
  \/ FilterData
  \/ AggregateDataFile
  \/ FormatAggregationFile

Spec == Init /\ [][Next]_vars

NextAggregate ==
  \/ AggregateDataFile
  \/ AggregateDataSqlite
  \/ FormatAggregationFile
  \/ FormatAggregationSqlite

SpecAggregate == InitAggregate /\ [][NextAggregate]_vars

NextParse == ParsePropertyFilters

NextDatabase ==
  \/ ParsePropertyFilters
  \/ OpenDatabase
  \/ GetAllTableNames
  \/ QueryTable
  \/ LogCommandAndClose
  \/ LogCallback
  \/ CloseCallback
  \/ CatchClose
  \/ CatchCloseCallback
  \/ ReportError
  \/ AggregateDataSqlite
  \/ FormatAggregationSqlite
  \/ EmitResult

SpecDatabase == InitDatabase /\ [][NextDatabase]_vars

SpecParse == InitParse /\ [][NextParse]_vars

(***************************************************************************)
(* Properties                                                              *)
(***************************************************************************)
Filtered == pc \in {"aggregate", "format", "done"}

Aggregated == pc \in {"format", "done"}

\* The entity passes the model allow-list and, for every key of the filter
\* map, carries some property with that slug and a non-null value that is
\* one of the key's values.
Keeps(entity) ==
  /\ \/ ~modelFilters.defined
     \/ modelFilters.items = <<>>
     \/ entity.model \in Range(modelFilters.items)
  /\ \A key \in DOMAIN propertyFilterMap :
       \E i \in 1..Len(entity.properties) :
         /\ entity.properties[i].slug = key
         /\ entity.properties[i].value # Null
         /\ entity.properties[i].value \in Range(propertyFilterMap[key])

\* C1: filterData keeps an entity if and only if its model passes the
\* allow-list (absent, empty, or containing the model) and every key of the
\* filter map is matched by a non-null property value that is strictly
\* equal to one of the key's values.
C1_FilterKeepsExactlyMatches ==
  Filtered =>
    /\ Range(filteredData) \subseteq Range(data)
    /\ \A i \in 1..Len(data) : (data[i] \in Range(filteredData)) <=> Keeps(data[i])

\* Two filter keys are in force; an entity with the number 1 is kept and an
\* entity of an allowed model with the string "1" is dropped.
C1_Witness ==
  /\ pc = "aggregate"
  /\ DOMAIN propertyFilterMap = {SlugA, SlugB}
  /\ propertyFilterMap[SlugA] = <<Num(1)>>
  /\ \E i, j \in 1..Len(data) :
       /\ data[i] \in Range(filteredData)
       /\ data[j] \notin Range(filteredData)
       /\ Prop(SlugA, Str(<<"1">>)) \in Range(data[j].properties)
       /\ Prop(SlugB, Str(<<"a">>)) \in Range(data[j].properties)

ModelItems == IF modelFilters.defined THEN modelFilters.items ELSE <<>>

AddedValueLists == {<<Num(1)>>, <<Str(<<"a">>)>>, <<Num(1), Str(<<"a">>)>>, <<Null>>}

WithKey(map, key, values) ==
  [k \in (DOMAIN map) \cup {key} |-> IF k = key THEN values ELSE map[k]]

KeptWithModel(m) ==
  Len(filterData(data, Given(Append(ModelItems, m)), propertyFilterMap))

KeptWithKey(key, values) ==
  Len(filterData(data, modelFilters, WithKey(propertyFilterMap, key, values)))

AddingKeyNeverIncreases ==
  \A key \in {SlugA, SlugB} \ DOMAIN propertyFilterMap :
    \A values \in AddedValueLists :
      KeptWithKey(key, values) <= Len(filteredData)

\* C2: adding a model to any allow-list, the empty one included, never
\* lowers the number of entities kept, and adding a filter key with a
\* non-empty value list never raises it.
C2_MonotoneForEveryAllowList ==
  Filtered =>
    /\ \A m \in Models : KeptWithModel(m) >= Len(filteredData)
    /\ AddingKeyNeverIncreases

\* C2 as amended: adding a model to a non-empty allow-list never lowers the
\* number of entities kept, and adding a filter key with a non-empty value
\* list never raises it.
C2_MonotoneForNonEmptyAllowList ==
  Filtered =>
    /\ ModelItems # <<>> => \A m \in Models : KeptWithModel(m) >= Len(filteredData)
    /\ AddingKeyNeverIncreases

\* A one-model allow-list that keeps more once a model is added, and a
\* filter that keeps less once a key is added.
C2_Witness ==
  /\ pc = "aggregate"
  /\ ModelItems # <<>>
  /\ \E m \in Models : KeptWithModel(m) > Len(filteredData)
  /\ \E values \in AddedValueLists : KeptWithKey(SlugB, values) < Len(filteredData)

\* The non-null, non-undefined values the list carries under a slug.
CountedValues(slug) ==
  {p.value : p \in {q \in UNION {Range(filteredData[i].properties) :
                                   i \in 1..Len(filteredData)} :
                      q.slug = slug /\ q.value \notin {Null, Undefined}}}

\* C3: values that differ in type or in value are counted in separate
\* buckets, so a slug has as many buckets as it has distinct counted values.
C3_SeparateBuckets ==
  Aggregated =>
    \A i \in 1..Len(aggregation) :
      Len(aggregation[i].val) = Cardinality(CountedValues(aggregation[i].key))

\* C4: no slug's list in the formatted result holds two pairs with the same
\* value.
C4_ValuesPairwiseDistinct ==
  pc = "done" =>
    \A i \in 1..Len(result) :
      \A j, k \in 1..Len(result[i].val) :
        j < k => result[i].val[j][1] # result[i].val[k][1]

\* C5: every slug of the result has a non-empty list of counts that are
\* integers of at least 1, a slug with no value other than null or
\* undefined is absent, and an empty input gives the empty result.
C5_NoEmptySlugNoZeroCount ==
  pc = "done" =>
    /\ \A i \in 1..Len(result) :
         /\ Len(result[i].val) >= 1
         /\ \A j \in 1..Len(result[i].val) : result[i].val[j][2] \in Nat \ {0}
         /\ CountedValues(result[i].key) # {}
    /\ filteredData = <<>> => result = EmptyObj

\* Rows of the SQLite-backed pipeline whose column a holds null in every
\* row: a is absent while stolen is reported.
C5_Witness ==
  /\ pc = "done"
  /\ variant = "sqlite"
  /\ Len(filteredData) >= 2
  /\ \A i \in 1..Len(filteredData) :
       Prop(SlugA, Null) \in Range(filteredData[i].properties)
  /\ ~ObjHas(result, SlugA)
  /\ ObjHas(result, SlugStolen)

\* C6: every slug's list is in non-increasing order of count.
C6_SortedByCountDescending ==
  pc = "done" =>
    \A i \in 1..Len(result) :
      \A j, k \in 1..Len(result[i].val) :
        j < k => result[i].val[j][2] >= result[i].val[k][2]

\* The buckets of a slug are listed by Object.entries with a smaller count
\* ahead of a larger one, so the sort has moved a pair.
C6_Witness ==
  /\ pc = "done"
  /\ \E i \in 1..Len(aggregation) :
       LET entries == ObjEntries(aggregation[i].val)
       IN /\ Len(entries) >= 2
          /\ entries[1][2] < entries[2][2]
          /\ ObjGet(result, aggregation[i].key)[1][2] = entries[2][2]

\* C7: every stored string, number or boolean is displayed by a pair whose
\* value equals it in type and in value.
C7_DisplayedValueIsStoredValue ==
  pc = "done" =>
    \A i \in 1..Len(filteredData) :
      \A p \in Range(filteredData[i].properties) :
        p.value.t \in {"string", "number", "boolean"} =>
          /\ ObjHas(result, p.slug)
          /\ \E k \in 1..Len(ObjGet(result, p.slug)) :
               ObjGet(result, p.slug)[k][1] = p.value

Triples(res) ==
  UNION {{<<res[i].key, res[i].val[j][1], res[i].val[j][2]>> :
            j \in 1..Len(res[i].val)} : i \in 1..Len(res)}

Reorderings(entities) ==
  {[i \in 1..Len(entities) |-> entities[f[i]]] :
     f \in Permutations(1..Len(entities))}

\* C8: run on any reordering of the entities gives the same set of
\* (slug, value, count) triples.
C8_CountsIndependentOfOrder ==
  pc = "done" =>
    \A other \in Reorderings(data) :
      Triples(run(other, modelFilters, propertyFilters)) = Triples(result)

\* A reordering changes the printed result and leaves the triples alone.
C8_Witness ==
  /\ pc = "done"
  /\ Len(filteredData) >= 2
  /\ \E other \in Reorderings(data) :
       run(other, modelFilters, propertyFilters) # result

RawItems == IF propertyFilters.defined THEN propertyFilters.items ELSE <<>>

\* An entry read as the text calls for: the key is what precedes the first
\* ':' and the value list is everything after it.
KeyPart(entry) == SubSeq(entry, 1, IndexOf(entry, ":") - 1)

ValuePart(entry) == SubSeq(entry, IndexOf(entry, ":") + 1, Len(entry))

WellFormed(entry) ==
  /\ IndexOf(entry, ":") > 1
  /\ IndexOf(entry, ":") < Len(entry)

\* C9: malformed entries are skipped; the map has exactly the keys of the
\* well-formed entries and is the map of the list without the malformed
\* entries.
C9_MalformedEntriesSkipped ==
  pc = "filter" =>
    LET good == SelectSeq(RawItems, WellFormed)
    IN /\ DOMAIN propertyFilterMap = {KeyPart(good[i]) : i \in 1..Len(good)}
       /\ propertyFilterMap = parsePropertyFilters(Given(good))

\* C10: the last well-formed entry of a key maps the key to the pieces, in
\* order, of everything after the entry's first ':' split on ',', each
\* piece type-inferred.
C10_SplitOnFirstColonOnly ==
  pc = "filter" =>
    \A i \in 1..Len(RawItems) :
      (/\ WellFormed(RawItems[i])
       /\ \A j \in (i + 1)..Len(RawItems) :
            WellFormed(RawItems[j]) => KeyPart(RawItems[j]) # KeyPart(RawItems[i]))
      => /\ KeyPart(RawItems[i]) \in DOMAIN propertyFilterMap
         /\ LET pieces == Split(ValuePart(RawItems[i]), ",")
            IN propertyFilterMap[KeyPart(RawItems[i])]
                 = [n \in 1..Len(pieces) |-> parseValue(pieces[n])]

\* The columns the import made for a property of type BOOLEAN.
StoredBooleanColumns ==
  {basicSanitization(p.slug) :
     p \in {q \in UNION {Range(data[i].properties) : i \in 1..Len(data)} :
              q.type = "BOOLEAN"}}

\* The rows returned to run that hold the value in the column.
RowsHolding(column, value) ==
  {i \in 1..Len(filteredData) :
     \E p \in Range(filteredData[i].properties) :
       p.slug = column /\ p.value = value}

\* The count a result list gives for the display values.
CountUnder(list, shown) ==
  IF \E k \in 1..Len(list) : list[k][1] \in shown
  THEN list[CHOOSE k \in 1..Len(list) : list[k][1] \in shown][2]
  ELSE 0

ShownTrue == {Bool(TRUE), Str(<<"t", "r", "u", "e">>)}
ShownFalse == {Bool(FALSE), Str(<<"f", "a", "l", "s", "e">>)}
ShownRaw == {Num(1), Num(0), Str(<<"1">>), Str(<<"0">>)}

\* C11: in the result of the SQLite-backed command every column that
\* stores a boolean property as 1 or 0 counts its rows under true and
\* false, and no pair of the column's list shows 1 or 0.
C11_BooleanColumnsShowTrueFalse ==
  pc \in {"done", "exit"} =>
    \A c \in StoredBooleanColumns :
      LET list == IF ObjHas(result, c) THEN ObjGet(result, c) ELSE <<>>
      IN /\ CountUnder(list, ShownTrue) = Cardinality(RowsHolding(c, Num(1)))
         /\ CountUnder(list, ShownFalse) = Cardinality(RowsHolding(c, Num(0)))
         /\ \A k \in 1..Len(list) : list[k][1] \notin ShownRaw

\* The tables as ensureDatabase left them: the audit row of this command
\* is the only change made later.
ImportedTables == IF tables = <<>> THEN <<>> ELSE setupDatabase(data)

\* The rows of the models' tables that pass the filters, in the order of
\* the models; a model without a table gives no row.
RECURSIVE SelectAll(_, _, _)
SelectAll(models, tbls, map) ==
  IF models = <<>> THEN <<>>
  ELSE (IF TableIndex(tbls, Head(models)) = 0 THEN <<>>
        ELSE SelectRows(tbls[TableIndex(tbls, Head(models))], map))
         \o SelectAll(Tail(models), tbls, map)

\* C12: a command that names a model without a table does not fail on
\* that, and what it prints is the aggregation of the rows of the named
\* models that have a table.
C12_MissingTableContributesNoRows ==
  (/\ modelFilters.defined
   /\ \E m \in Range(modelFilters.items) : TableIndex(tables, m) = 0)
  => /\ error # MissingTableError
     /\ pc = "exit" =>
          emitted = <<formatAggregationSqlite(aggregateDataSqlite(
                        SelectAll(modelFilters.items, ImportedTables,
                                  propertyFilterMap)))>>

\* The tables the command is to read: the allow-list, or every table when
\* the allow-list is absent or empty.
RequestedTables ==
  IF modelFilters.defined /\ Len(modelFilters.items) > 0
  THEN modelFilters.items
  ELSE TableNames(ImportedTables)

\* C13: a result is printed at most once, only when nothing has failed
\* and parsing, the query of every requested table, aggregation and
\* formatting are done, and it is the aggregation of the rows of all the
\* requested tables; after a failure nothing is printed.
C13_ResultOnlyAfterWholePipeline ==
  /\ Len(emitted) <= 1
  /\ error # "none" => emitted = <<>>
  /\ emitted # <<>> =>
       /\ pc = "exit"
       /\ promise = "resolved"
       /\ propertyFilterMap = parsePropertyFilters(propertyFilters)
       /\ tablesToQuery = RequestedTables
       /\ queue = <<>>
       /\ \A i \in 1..Len(tablesToQuery) : TableIndex(tables, tablesToQuery[i]) # 0
       /\ emitted[1] = formatAggregationSqlite(aggregateDataSqlite(
                          SelectAll(tablesToQuery, ImportedTables, propertyFilterMap)))

\* A result with rows of two tables has been printed.
C13_Witness ==
  /\ pc = "exit"
  /\ Len(emitted) = 1
  /\ \E i, j \in 1..Len(filteredData) :
       filteredData[i].model = "vehicle" /\ filteredData[j].model = "person"

\* What the command computes and prints.
Outcome == <<pc, error, promise, allResults, filteredData, aggregation, result, emitted>>

\* C14: the audit INSERT is issued when every table query has succeeded;
\* its callback, with or without an error, changes nothing of what the
\* command computes, a failed INSERT is no error of the command, and the
\* rows returned to run are those of all the requested tables whatever
\* became of the INSERT.
C14_LogFailureChangesNothing ==
  /\ [](conn.logIssued > 0 =>
          /\ allResults = SelectAll(tablesToQuery, ImportedTables, propertyFilterMap)
          /\ error \in {"none", CloseError}
          /\ promise = "resolved" => filteredData = allResults)
  /\ [][conn'.logResult # conn.logResult /\ conn.logResult = "pending"
          => UNCHANGED Outcome]_vars

\* The INSERT failed although the log table is there, and the command
\* has printed a result that is not empty.
C14_Witness ==
  /\ conn.logResult = "failed"
  /\ TableIndex(tables, "log") # 0
  /\ pc = "exit"
  /\ emitted # <<>>
  /\ emitted[1] # EmptyObj

\* Every close asked for has called back, and one was asked for.
Closed ==
  /\ conn.closeRequested >= 1
  /\ conn.closeCalledBack = conn.closeRequested

\* The INSERT is issued by a step taken when every table query has
\* returned, nothing has failed and no close has been asked for.
LogIssuedAfterQueriesBeforeClose ==
  conn'.logIssued > conn.logIssued =>
    /\ conn.logIssued = 0
    /\ queue = <<>>
    /\ tablesToQuery # <<>>
    /\ error = "none"
    /\ conn.closeRequested = 0

\* C15 as stated: once the promise of queryDatabase is settled a close has
\* been asked for and has called back; the audit INSERT has been issued
\* once when the promise resolved, after the last table query and before the
\* close, and never when the promise rejected.
C15_LogNeverIssuedOnFailure ==
  /\ [](promise # "pending" => Closed)
  /\ [](promise = "resolved" => conn.logIssued = 1)
  /\ [](promise = "rejected" => conn.logIssued = 0)
  /\ [][LogIssuedAfterQueriesBeforeClose]_vars

\* C15 amended: as above, but when the promise rejected the INSERT has
\* been issued once if the failure is that of the close, and never if it
\* is that of the table listing or of a table query.
C15_LogIssuedUnlessQueryFailed ==
  /\ [](promise # "pending" => Closed)
  /\ [](promise = "resolved" => conn.logIssued = 1)
  /\ [](promise = "rejected" =>
          conn.logIssued = (IF error = CloseError THEN 1 ELSE 0))
  /\ [][LogIssuedAfterQueriesBeforeClose]_vars

\* The close of the try block failed: the promise rejected after the
\* INSERT was issued and after a second close was asked for and called back.
C15_Witness ==
  /\ promise = "rejected"
  /\ error = CloseError
  /\ conn.logIssued = 1
  /\ conn.closeRequested = 2
  /\ conn.closeCalledBack = 2

====
